---- MODULE Spec2Model ----
(***************************************************************************)
(* Model of the JSON Schema generator (package generator):                 *)
(* JSONSchemaGenerator.Run and the functions it calls.  A Go string is a   *)
(* sequence of one-character strings; a nil-able pointer is <<>> (nil) or  *)
(* <<v>> (a pointer to v).                                                 *)
(***************************************************************************)
EXTENDS Integers, Sequences, FiniteSets, TLC

VARIABLES conf, files, fileIdx, generated, pc

vars == <<conf, files, fileIdx, generated, pc>>

(***************************************************************************)
(* Go strings                                                              *)
(***************************************************************************)
None == <<>>
Some(v) == <<v>>

\* F of the value of v: v is evaluated once, however often F uses it.
Let(v, F(_)) == CHOOSE r \in {F(x) : x \in {v}} : TRUE

Lower == <<"a","b","c","d","e","f","g","h","i","j","k","l","m",
           "n","o","p","q","r","s","t","u","v","w","x","y","z">>
Upper == <<"A","B","C","D","E","F","G","H","I","J","K","L","M",
           "N","O","P","Q","R","<<",">>T","U","V","W","X","Y","Z">>
Digit == <<"0","1","2","3","4","5","6","7","8","9">>

\* The printable ASCII characters, in byte order from the space on (the quote
\* characters and the backslash, which no input uses, are spelled out).
Printable == <<" ","!","dquote","#","$","%","&","quote","(",")","*","+",",","-",".","/">>
             \o Digit \o <<":",";","<","=",">","?","@">> \o Upper
             \o <<"[","backslash","]","^","_","backquote">> \o Lower \o <<"{","|","}","~">>

IndexIn(c, s) == IF \E i \in DOMAIN s : s[i] = c
                 THEN CHOOSE i \in DOMAIN s : s[i] = c /\ \A j \in 1..(i - 1) : s[j] # c
                 ELSE 0

\* The byte value of a character ("\n" and "\t" are the control characters used).
Ord(c) == IF c = "\t" THEN 9 ELSE IF c = "\n" THEN 10 ELSE 31 + IndexIn(c, Printable)

isASCIILower(c) == IndexIn(c, Lower) > 0
isASCIIUpper(c) == IndexIn(c, Upper) > 0
isASCIIDigit(c) == IndexIn(c, Digit) > 0

ToUpperChar(c) == IF isASCIILower(c) THEN Upper[IndexIn(c, Lower)] ELSE c
ToLowerChar(c) == IF isASCIIUpper(c) THEN Lower[IndexIn(c, Upper)] ELSE c

ToUpper(s) == [i \in DOMAIN s |-> ToUpperChar(s[i])]
ToLower(s) == [i \in DOMAIN s |-> ToLowerChar(s[i])]

\* s[from:] with from a 0-based byte offset.
SliceFrom(s, from) == SubSeq(s, from + 1, Len(s))

\* String order of Go: byte-wise, a proper prefix first.
RECURSIVE StrLess(_, _)
StrLess(a, b) ==
    IF b = <<>> THEN FALSE
    ELSE IF a = <<>> THEN TRUE
    ELSE IF Head(a) # Head(b) THEN Ord(Head(a)) < Ord(Head(b))
    ELSE StrLess(Tail(a), Tail(b))

StrGE(a, b) == ~StrLess(a, b)

\* p occurs in s at the 1-based position i.
HasAt(s, i, p) == /\ i >= 1
                  /\ i + Len(p) - 1 <= Len(s)
                  /\ SubSeq(s, i, i + Len(p) - 1) = p

\* strings.Replace(s, old, new, -1) for a one-character old.
ReplaceChar(s, old, new) == [i \in DOMAIN s |-> IF s[i] = old THEN new ELSE s[i]]

RECURSIVE RemoveChar(_, _)
RemoveChar(s, c) ==
    IF s = <<>> THEN <<>>
    ELSE IF Head(s) = c THEN RemoveChar(Tail(s), c)
    ELSE <<Head(s)>> \o RemoveChar(Tail(s), c)

isSpace(c) == c \in {" ", "\t", "\n"}

RECURSIVE TrimLeft(_)
TrimLeft(s) == IF s # <<>> /\ isSpace(Head(s)) THEN TrimLeft(Tail(s)) ELSE s

RECURSIVE TrimRight(_)
TrimRight(s) == IF s # <<>> /\ isSpace(s[Len(s)])
                THEN TrimRight(SubSeq(s, 1, Len(s) - 1)) ELSE s

TrimSpace(s) == TrimRight(TrimLeft(s))

(***************************************************************************)
(* Regular expressions of the generator                                    *)
(***************************************************************************)
\* The first position >= i of s that does not hold c (Len(s) + 1 when none).
RECURSIVE SkipRun(_, _, _)
SkipRun(s, i, c) == IF i <= Len(s) /\ s[i] = c THEN SkipRun(s, i + 1, c) ELSE i

\* The first position >= i of s that holds c (0 when none).
RECURSIVE IndexFrom(_, _, _)
IndexFrom(s, i, c) == IF i > Len(s) THEN 0
                      ELSE IF s[i] = c THEN i
                      ELSE IndexFrom(s, i + 1, c)

\* reSchemaVersion = `https*://json-schema.org/draft[/-]([^/]+)/schema` matched
\* at position i: <<capture>>, or <<>> when it does not match there.  The
\* unescaped dot matches any character but a line break; [^/]+ ends at the
\* first slash.
reSchemaVersionAt(s, i) ==
    IF ~HasAt(s, i, <<"h","t","t","p">>) THEN None
    ELSE LET k  == SkipRun(s, i + 4, "s")
             k2 == k + 14
             k3 == k2 + 10
             c  == k3 + 1
             e  == IndexFrom(s, c, "/")
         IN IF /\ HasAt(s, k, <<":","/","/","j","s","o","n","-","s","c","h","e","m","a">>)
               /\ k2 <= Len(s) /\ s[k2] # "\n"
               /\ HasAt(s, k2 + 1, <<"o","r","g","/","d","r","a","f","t">>)
               /\ k3 <= Len(s) /\ s[k3] \in {"/", "-"}
               /\ e > c
               /\ HasAt(s, e, <<"/","s","c","h","e","m","a">>)
            THEN Some(SubSeq(s, c, e - 1))
            ELSE None

\* reSchemaVersion.FindStringSubmatch(s)[1] of the leftmost match, as <<capture>>.
reSchemaVersion(s) ==
    LET hits == {i \in 1..Len(s) : reSchemaVersionAt(s, i) # None}
    IN IF hits = {} THEN None
       ELSE reSchemaVersionAt(s, CHOOSE i \in hits : \A j \in hits : i <= j)

\* linterRulePattern = `\(-- .* --\)`: the end (position of the closing " --)")
\* of the match that starts at i, 0 when none.  .* is greedy and stays on one
\* line.
linterRuleEnd(s, i) ==
    LET ends == {k \in (i + 4)..Len(s) :
                    /\ HasAt(s, k, <<" ","-","-",")">>)
                    /\ \A j \in (i + 4)..(k - 1) : s[j] # "\n"}
    IN IF HasAt(s, i, <<"(","-","-"," ">>) /\ ends # {}
       THEN CHOOSE k \in ends : \A j \in ends : k >= j
       ELSE 0

\* linterRulePattern.ReplaceAllString(s, "")
RECURSIVE linterRuleReplaceAll(_)
linterRuleReplaceAll(s) ==
    LET starts == {i \in 1..Len(s) : linterRuleEnd(s, i) > 0}
    IN IF starts = {} THEN s
       ELSE LET i == CHOOSE x \in starts : \A y \in starts : x <= y
                k == linterRuleEnd(s, i)
            IN SubSeq(s, 1, i - 1) \o linterRuleReplaceAll(SubSeq(s, k + 4, Len(s)))

(***************************************************************************)
(* Names the descriptors carry (protogen, protoreflect)                    *)
(***************************************************************************)
\* The end of the run of lower-case letters that follows position i.
RECURSIVE LowerRunEnd(_, _)
LowerRunEnd(s, i) == IF i + 1 <= Len(s) /\ isASCIILower(s[i + 1])
                     THEN LowerRunEnd(s, i + 1) ELSE i

\* protogen's GoName of a field or oneof: the Go camel case of its name.
RECURSIVE GoCamelCaseFrom(_, _)
GoCamelCaseFrom(s, i) ==
    IF i > Len(s) THEN <<>>
    ELSE LET c == s[i]
             nextLower == i + 1 <= Len(s) /\ isASCIILower(s[i + 1])
         IN IF c = "." /\ nextLower THEN GoCamelCaseFrom(s, i + 1)
            ELSE IF c = "." THEN <<"_">> \o GoCamelCaseFrom(s, i + 1)
            ELSE IF c = "_" /\ (i = 1 \/ s[i - 1] = ".")
                 THEN <<"X">> \o GoCamelCaseFrom(s, i + 1)
            ELSE IF c = "_" /\ nextLower THEN GoCamelCaseFrom(s, i + 1)
            ELSE IF isASCIIDigit(c) THEN <<c>> \o GoCamelCaseFrom(s, i + 1)
            ELSE LET e == LowerRunEnd(s, i)
                 IN <<ToUpperChar(c)>> \o SubSeq(s, i + 1, e)
                    \o GoCamelCaseFrom(s, e + 1)

GoName(name) == GoCamelCaseFrom(name, 1)

\* The default JSON name of a field: lower camel case of its name.
RECURSIVE JSONCamelCaseFrom(_, _, _)
JSONCamelCaseFrom(s, i, wasUnderscore) ==
    IF i > Len(s) THEN <<>>
    ELSE IF s[i] = "_" THEN JSONCamelCaseFrom(s, i + 1, TRUE)
    ELSE <<IF wasUnderscore THEN ToUpperChar(s[i]) ELSE s[i]>>
         \o JSONCamelCaseFrom(s, i + 1, FALSE)

JSONName(name) == JSONCamelCaseFrom(name, 1, FALSE)

\* FullName of a declaration named name in the scope whose full name is parent
\* (the package for a top-level declaration).
FullName(parent, name) == IF parent = <<>> THEN name ELSE parent \o <<".">> \o name

(***************************************************************************)
(* Naming and comments                                                     *)
(***************************************************************************)
filterCommentString(g, c, removeNewLines) ==
    LET comment == IF removeNewLines THEN RemoveChar(c, "\n") ELSE c
    IN TrimSpace(linterRuleReplaceAll(comment))

formatMessageNameString(g, name) ==
    IF g.Naming = "proto" THEN name
    ELSE IF Len(name) > 1 THEN ToUpper(SubSeq(name, 1, 1)) \o SliceFrom(name, 1)
    ELSE IF Len(name) = 1 THEN ToLower(name)
    ELSE name

formatOneofFieldName(g, oneof) ==
    IF g.Naming = "proto" THEN oneof.Name
    ELSE LET name == oneof.GoName
         IN IF Len(name) > 1 THEN ToLower(SubSeq(name, 1, 1)) \o SliceFrom(name, 1)
            ELSE IF Len(name) = 1 THEN ToLower(name)
            ELSE name

formatFieldName(g, field) ==
    IF g.Naming = "proto" THEN field.Name ELSE field.JSONName

messageDefinitionName(desc) ==
    LET pkg == desc.Package
        parentName == desc.ParentFullName
        name == IF Len(parentName) > Len(pkg)
                THEN SliceFrom(parentName, Len(pkg) + 1) \o <<".">> \o desc.Name
                ELSE desc.Name
    IN ReplaceChar(name, ".", "_")

(***************************************************************************)
(* jsonschema.Schema values                                                *)
(***************************************************************************)
typeString  == "string"
typeNumber  == "number"
typeInteger == "integer"
typeBoolean == "boolean"
typeObject  == "object"
typeArray   == "array"
typeNull    == "null"

formatDate     == "date"
formatDateTime == "date-time"
formatEnum     == "enum"
formatBytes    == "bytes"

\* The zero jsonschema.Schema: every keyword nil.
NewSchema ==
    [Schema |-> None, ID |-> None, Ref |-> None, Type |-> None, Format |-> None,
     Title |-> None, Description |-> None, Default |-> None,
     ReadOnly |-> None, WriteOnly |-> None,
     Properties |-> None, Definitions |-> None, Items |-> None,
     AdditionalProperties |-> None, OneOf |-> None, Enumeration |-> None]

\* jsonschema.StringOrStringArray
TypeOf(t) == Some([String |-> Some(t), StringArray |-> None])
TypesOf(ts) == Some([String |-> None, StringArray |-> Some(ts)])

\* jsonschema.DefaultValue
NewDefault == [StringValue |-> None, Int64Value |-> None, Float64Value |-> None,
               BooleanValue |-> None, ArrayValue |-> None, NullTag |-> FALSE]
emptyString  == <<>>
emptyInt64   == 0
emptyFloat64 == 0
emptyBoolean == FALSE
emptyArray   == <<>>

NamedSchema(name, value) == [Name |-> name, Value |-> value]

(***************************************************************************)
(* Type mapping                                                            *)
(***************************************************************************)
IntegerKinds == {"int32", "sint32", "uint32", "int64", "sint64", "uint64",
                 "sfixed32", "fixed32", "sfixed64", "fixed64"}

schemaOrReferenceForType(g, desc) ==
    LET typeName == <<".">> \o desc.Package \o <<".">> \o desc.Name
    IN IF typeName = <<".","g","o","o","g","l","e",".","p","r","o","t","o","b","u","f",".","T","i","m","e","s","t","a","m","p">>
       THEN Some([NewSchema EXCEPT !.Type = TypeOf(typeString),
                                   !.Format = Some(formatDateTime)])
       ELSE IF typeName = <<".","g","o","o","g","l","e",".","t","y","p","e",".","D","a","t","e">>
       THEN Some([NewSchema EXCEPT !.Type = TypeOf(typeString),
                                   !.Format = Some(formatDate)])
       ELSE IF typeName = <<".","g","o","o","g","l","e",".","t","y","p","e",".","D","a","t","e","T","i","m","e">>
       THEN Some([NewSchema EXCEPT !.Type = TypeOf(typeString),
                                   !.Format = Some(formatDateTime)])
       ELSE IF typeName = <<".","g","o","o","g","l","e",".","p","r","o","t","o","b","u","f",".","S","t","r","u","c","t">>
       THEN Some([NewSchema EXCEPT !.Type = TypeOf(typeObject)])
       ELSE IF typeName = <<".","g","o","o","g","l","e",".","p","r","o","t","o","b","u","f",".","V","a","l","u","e">>
       THEN Some([NewSchema EXCEPT !.Type =
                TypesOf(<<typeString, typeNumber, typeInteger, typeBoolean,
                          typeObject, typeArray>>)])
       ELSE IF typeName = <<".","g","o","o","g","l","e",".","p","r","o","t","o","b","u","f",".","E","m","p","t","y">>
       THEN None
       ELSE LET ref == formatMessageNameString(g, messageDefinitionName(desc))
                       \o <<".","j","s","o","n">>
            IN Some([NewSchema EXCEPT !.Ref = Some(ref)])

\* The default taken from the last declared value instead of the first.
enumStringSchema_DefaultLast(values) ==
    [NewSchema EXCEPT
        !.Format = Some(formatEnum),
        !.Type = TypeOf(typeString),
        !.Enumeration = Some([i \in DOMAIN values |-> values[i]]),
        !.Default = IF Len(values) > 0
                    THEN Some([NewDefault EXCEPT !.StringValue = Some(values[Len(values)])])
                    ELSE None]

\* The Enumeration and Default the loop over field.Enum().Values() builds.
enumStringSchema(values) ==
    [NewSchema EXCEPT
        !.Format = Some(formatEnum),
        !.Type = TypeOf(typeString),
        !.Enumeration = Some([i \in DOMAIN values |-> values[i]]),
        !.Default = IF Len(values) > 0
                    THEN Some([NewDefault EXCEPT !.StringValue = Some(values[1])])
                    ELSE None]

\* The switch on field.Kind(): <<kindSchema>>, or <<>> for a nil kindSchema.
kindSchemaForField(g, field) ==
    LET kind == field.Kind
    IN IF kind = "message"
       THEN schemaOrReferenceForType(g, field.Message[1])
       ELSE IF kind = "string"
       THEN Some([NewSchema EXCEPT
                !.Type = TypeOf(typeString),
                !.Default = Some([NewDefault EXCEPT !.StringValue = Some(emptyString)])])
       ELSE IF kind \in IntegerKinds
       THEN Some([NewSchema EXCEPT
                !.Type = TypeOf(typeInteger),
                !.Format = Some(kind),
                !.Default = Some([NewDefault EXCEPT !.Int64Value = Some(emptyInt64)])])
       ELSE IF kind = "enum"
       THEN IF g.EnumType # None /\ g.EnumType[1] = typeString
            THEN Some(enumStringSchema(field.EnumValues))
            ELSE Some([NewSchema EXCEPT
                !.Format = Some(formatEnum),
                !.Type = TypeOf(typeInteger),
                !.Default = Some([NewDefault EXCEPT !.Int64Value = Some(emptyInt64)])])
       ELSE IF kind = "bool"
       THEN Some([NewSchema EXCEPT
                !.Type = TypeOf(typeBoolean),
                !.Default = Some([NewDefault EXCEPT !.BooleanValue = Some(emptyBoolean)])])
       ELSE IF kind \in {"float", "double"}
       THEN Some([NewSchema EXCEPT
                !.Type = TypeOf(typeNumber),
                !.Format = Some(kind),
                !.Default = Some([NewDefault EXCEPT !.Float64Value = Some(emptyFloat64)])])
       ELSE IF kind = "bytes"
       THEN Some([NewSchema EXCEPT
                !.Type = TypeOf(typeString),
                !.Format = Some(formatBytes),
                !.Default = Some([NewDefault EXCEPT !.StringValue = Some(emptyString)])])
       ELSE None

\* The wrapping of kindSchema (<<schema>> or <<>>) for a repeated field.
listSchema(kindSchema) ==
    [NewSchema EXCEPT
        !.Type = TypeOf("array"),
        !.Items = Some([Schema |-> kindSchema, SchemaArray |-> None]),
        !.Default = Some([NewDefault EXCEPT !.ArrayValue = Some(emptyArray)])]

\* <<schema>>, or <<>> for nil.
RECURSIVE schemaOrReferenceForField(_, _)
schemaOrReferenceForField(g, field) ==
    IF field.IsMap
    THEN Some([NewSchema EXCEPT
            !.Type = TypeOf("object"),
            !.AdditionalProperties =
                Some([Schema |-> schemaOrReferenceForField(g, field.MapValue[1]),
                      Boolean |-> None])])
    ELSE Let(kindSchemaForField(g, field), LAMBDA kindSchema :
            IF field.Kind = "message" /\ kindSchema = None THEN None
            ELSE IF field.IsList THEN Some(listSchema(kindSchema))
            ELSE kindSchema)

getSchemaVersion(schema) ==
    LET matches == reSchemaVersion(schema.Schema[1])
    IN IF matches # None THEN matches[1] ELSE <<>>

\* The two behaviors exchanged: INPUT_ONLY sets readOnly, OUTPUT_ONLY writeOnly.
applyFieldBehavior_Swapped(fieldSchema, behaviors) ==
    [fieldSchema EXCEPT
        !.ReadOnly = IF \E i \in DOMAIN behaviors : behaviors[i] = "INPUT_ONLY"
                     THEN Some(TRUE) ELSE @,
        !.WriteOnly = IF \E i \in DOMAIN behaviors : behaviors[i] = "OUTPUT_ONLY"
                      THEN Some(TRUE) ELSE @]

\* The loop over the field's behaviors: fieldSchema with readOnly/writeOnly set.
applyFieldBehavior(fieldSchema, behaviors) ==
    [fieldSchema EXCEPT
        !.ReadOnly = IF \E i \in DOMAIN behaviors : behaviors[i] = "OUTPUT_ONLY"
                     THEN Some(TRUE) ELSE @,
        !.WriteOnly = IF \E i \in DOMAIN behaviors : behaviors[i] = "INPUT_ONLY"
                      THEN Some(TRUE) ELSE @]

\* The title set without looking at Ref.
titleForField_Always(fieldSchema, fieldName) ==
    [fieldSchema EXCEPT !.Title = Some(fieldName)]

\* "Do not add title for ref values"
titleForField(fieldSchema, fieldName) ==
    IF fieldSchema.Ref = None THEN [fieldSchema EXCEPT !.Title = Some(fieldName)]
    ELSE fieldSchema

\* The description from the comments, when there is one.
descriptionForField(fieldSchema, description) ==
    IF description # <<>> THEN [fieldSchema EXCEPT !.Description = Some(description)]
    ELSE fieldSchema

\* <<NamedSchema>>, or <<>> for nil.
namedSchemaForField(g, field, schema, isValueProp) ==
    Let(schemaOrReferenceForField(g, field), LAMBDA fieldSchema :
        IF fieldSchema = None THEN None
        ELSE Let(IF ~isValueProp THEN formatFieldName(g, field) ELSE <<"v","a","l","u","e">>,
                 LAMBDA fieldName :
                    Some(NamedSchema(fieldName,
                        descriptionForField(
                            titleForField(
                                IF StrGE(getSchemaVersion(schema.Value), <<"0","7">>)
                                THEN applyFieldBehavior(fieldSchema[1], field.Behavior)
                                ELSE fieldSchema[1],
                                fieldName),
                            filterCommentString(g, field.Comments, TRUE))))))

setupSchemaForMessage(g, schemaName, comments) ==
    LET id == g.BaseURL \o schemaName \o <<".","j","s","o","n">>
    IN NamedSchema(schemaName,
            descriptionForField(
                [NewSchema EXCEPT
                    !.Schema = Some(g.Version),
                    !.ID = Some(id),
                    !.Type = TypeOf("object"),
                    !.Title = Some(schemaName),
                    !.Properties = Some(<<>>)],
                filterCommentString(g, comments, TRUE)))

buildKindProperty(g, propertyValue) ==
    NamedSchema(<<"k","i","n","d">>,
        [NewSchema EXCEPT
            !.Title = Some(<<"k","i","n","d">>),
            !.Type = TypeOf(typeString),
            !.Enumeration = Some(<<propertyValue>>),
            !.Default = Some([NewDefault EXCEPT !.StringValue = Some(propertyValue)])])

(***************************************************************************)
(* Oneof expansion                                                         *)
(***************************************************************************)
\* One iteration of the loop over oneOfProto.Fields.  st holds the owning
\* document (schema) and the union under construction (oneOfSchema).
oneofFieldStep(g, fieldProto, st) ==
    LET schema == st.schema
        ref == schema.Name \o <<"_">> \o fieldProto.GoName
        kindProperty == buildKindProperty(g, fieldProto.Name)
    IN Let(namedSchemaForField(g, fieldProto, schema, TRUE), LAMBDA actualProperty :
       IF actualProperty = None THEN st
       ELSE LET oneofFieldSchema ==
                    NamedSchema(ref,
                        [NewSchema EXCEPT
                            !.Type = TypeOf(typeObject),
                            !.Title = Some(ref),
                            !.Properties = Some(<<kindProperty, actualProperty[1]>>)])
                definitions == IF schema.Value.Definitions = None THEN <<>>
                               ELSE schema.Value.Definitions[1]
                definitionsRef == <<"#","/","d","e","f","i","n","i","t","i","o","n","s","/">> \o ref
            IN [schema |-> [schema EXCEPT !.Value.Definitions =
                                Some(Append(definitions, oneofFieldSchema))],
                oneOfSchema |-> [st.oneOfSchema EXCEPT !.OneOf =
                                Some(Append(@[1],
                                     [NewSchema EXCEPT !.Ref = Some(definitionsRef)]))]])

RECURSIVE oneofFieldsLoop(_, _, _)
oneofFieldsLoop(g, fields, st) ==
    IF fields = <<>> THEN st
    ELSE oneofFieldsLoop(g, Tail(fields), oneofFieldStep(g, Head(fields), st))

\* The union list started empty, without the null alternative.
oneofStep_NoNull(g, oneOfProto, schema) ==
    LET oneOfSchema ==
            [NewSchema EXCEPT
                !.OneOf = Some(<<>>),
                !.Default = Some([NewDefault EXCEPT !.NullTag = TRUE])]
    IN Let(oneofFieldsLoop(g, oneOfProto.Fields,
                           [schema |-> schema, oneOfSchema |-> oneOfSchema]),
           LAMBDA st :
              [st.schema EXCEPT !.Value.Properties =
                  Some(Append(@[1], NamedSchema(formatOneofFieldName(g, oneOfProto),
                                                st.oneOfSchema)))])

\* One iteration of the loop over oneofs: the owning document afterwards.
oneofStep(g, oneOfProto, schema) ==
    LET oneOfSchema ==
            [NewSchema EXCEPT
                !.OneOf = Some(<<[NewSchema EXCEPT !.Type = TypeOf(typeNull)]>>),
                !.Default = Some([NewDefault EXCEPT !.NullTag = TRUE])]
    IN Let(oneofFieldsLoop(g, oneOfProto.Fields,
                           [schema |-> schema, oneOfSchema |-> oneOfSchema]),
           LAMBDA st :
              [st.schema EXCEPT !.Value.Properties =
                  Some(Append(@[1], NamedSchema(formatOneofFieldName(g, oneOfProto),
                                                st.oneOfSchema)))])

RECURSIVE addOneofFieldsToSchema(_, _, _)
addOneofFieldsToSchema(g, oneofs, schema) ==
    IF oneofs = <<>> THEN schema
    ELSE addOneofFieldsToSchema(g, Tail(oneofs), oneofStep(g, Head(oneofs), schema))

(***************************************************************************)
(* Message schema builder                                                  *)
(***************************************************************************)
\* One iteration of the loop over message.Fields.
plainFieldStep(g, field, schema) ==
    IF field.Oneof THEN schema
    ELSE Let(namedSchemaForField(g, field, schema, FALSE), LAMBDA namedSchema :
            IF namedSchema = None THEN schema
            ELSE [schema EXCEPT !.Value.Properties = Some(Append(@[1], namedSchema[1]))])

RECURSIVE plainFieldsLoop(_, _, _)
plainFieldsLoop(g, fields, schema) ==
    IF fields = <<>> THEN schema
    ELSE plainFieldsLoop(g, Tail(fields), plainFieldStep(g, Head(fields), schema))

\* The document of one message: setup, oneofs, then the plain fields.
schemaForMessage(g, message) ==
    LET schemaName == messageDefinitionName(message.Desc)
        schema == setupSchemaForMessage(g, schemaName, message.Comments)
    IN plainFieldsLoop(g, message.Fields,
                       addOneofFieldsToSchema(g, message.Oneofs, schema))

\* The document of the message appended before those of its nested messages.
appendMessageSchemas_ParentFirst(g, schemas, message, subSchemas) ==
    IF message.Desc.IsMapEntry THEN schemas \o subSchemas
    ELSE (schemas \o <<schemaForMessage(g, message)>>) \o subSchemas

\* What one iteration of the loop over messages leaves in schemas, given the
\* documents (subSchemas) of the nested messages.
appendMessageSchemas(g, schemas, message, subSchemas) ==
    IF message.Desc.IsMapEntry THEN schemas \o subSchemas
    ELSE (schemas \o subSchemas) \o <<schemaForMessage(g, message)>>

RECURSIVE buildSchemasFromMessages(_, _)
RECURSIVE subMessageSchemas(_, _)
subMessageSchemas(g, subMessages) ==
    IF subMessages = <<>> THEN <<>>
    ELSE buildSchemasFromMessages(g, <<Head(subMessages)>>)
         \o subMessageSchemas(g, Tail(subMessages))

buildSchemasFromMessages(g, messages) ==
    IF messages = <<>> THEN <<>>
    ELSE LET message == Head(messages)
         IN appendMessageSchemas(g, <<>>, message,
                                 subMessageSchemas(g, message.Messages))
            \o buildSchemasFromMessages(g, Tail(messages))

(***************************************************************************)
(* Descriptors handed to the generator (protogen.Message, protogen.Field)  *)
(***************************************************************************)
\* protoreflect.MessageDescriptor: what the generator reads of it.
MessageDesc(pkg, parentFullName, name, isMapEntry) ==
    [Package |-> pkg, ParentFullName |-> parentFullName, Name |-> name,
     IsMapEntry |-> isMapEntry]

\* A singular or repeated field.  message is <<descriptor>> for a message or
\* group field, behavior the google.api.field_behavior values, oneof whether
\* field.Oneof is set.
Field(name, kind, isList, message, enumValues, behavior, comments, oneof) ==
    [Name |-> name, JSONName |-> JSONName(name), GoName |-> GoName(name),
     Kind |-> kind, IsList |-> isList, IsMap |-> FALSE, MapValue |-> None,
     Message |-> message, EnumValues |-> enumValues, Behavior |-> behavior,
     Comments |-> comments, Oneof |-> oneof]

\* A map field: a repeated field of its synthetic entry message.
MapField(name, entry, value, behavior, comments) ==
    [Name |-> name, JSONName |-> JSONName(name), GoName |-> GoName(name),
     Kind |-> "message", IsList |-> FALSE, IsMap |-> TRUE, MapValue |-> Some(value),
     Message |-> Some(entry), EnumValues |-> <<>>, Behavior |-> behavior,
     Comments |-> comments, Oneof |-> FALSE]

Oneof(name, fields) == [Name |-> name, GoName |-> GoName(name), Fields |-> fields]

Message(desc, comments, fields, oneofs, messages) ==
    [Desc |-> desc, Comments |-> comments, Fields |-> fields, Oneofs |-> oneofs,
     Messages |-> messages]

File(pkg, generate, messages) ==
    [Package |-> pkg, Generate |-> generate, Messages |-> messages]

Configuration(baseURL, version, naming, enumType) ==
    [BaseURL |-> baseURL, Version |-> version, Naming |-> naming,
     EnumType |-> enumType]

(***************************************************************************)
(* The generator                                                           *)
(***************************************************************************)
\* NewJSONSchemaGenerator: the base URL gets its trailing slash.
NewJSONSchemaGenerator ==
    /\ pc = "new"
    /\ LET baseURL == conf.BaseURL
       IN conf' = [conf EXCEPT !.BaseURL =
                      IF Len(baseURL) > 0 /\ SliceFrom(baseURL, Len(baseURL) - 1) # <<"/">>
                      THEN baseURL \o <<"/">> ELSE baseURL]
    /\ pc' = "run"
    /\ UNCHANGED <<files, fileIdx, generated>>

\* The files Run writes for one document list.
generatedFiles(schemas) ==
    [i \in DOMAIN schemas |->
        [Name |-> schemas[i].Name \o <<".","j","s","o","n">>, Content |-> schemas[i].Value]]

\* Run, one iteration of the loop over plugin.Files, file.Generate set.
RunGenerate ==
    /\ pc = "run"
    /\ fileIdx <= Len(files)
    /\ files[fileIdx].Generate
    /\ generated' = generated
           \o generatedFiles(buildSchemasFromMessages(conf, files[fileIdx].Messages))
    /\ fileIdx' = fileIdx + 1
    /\ UNCHANGED <<conf, files, pc>>

\* Run, one iteration of the loop over plugin.Files, file.Generate not set.
RunSkip ==
    /\ pc = "run"
    /\ fileIdx <= Len(files)
    /\ ~files[fileIdx].Generate
    /\ fileIdx' = fileIdx + 1
    /\ UNCHANGED <<conf, files, generated, pc>>

\* Run returns nil.
RunReturn ==
    /\ pc = "run"
    /\ fileIdx > Len(files)
    /\ pc' = "done"
    /\ UNCHANGED <<conf, files, fileIdx, generated>>

Next == NewJSONSchemaGenerator \/ RunGenerate \/ RunSkip \/ RunReturn

(***************************************************************************)
(* Inputs                                                                  *)
(***************************************************************************)
MaxMessages == 3    \* messages of a generated file, nested ones included
MaxDepth == 2       \* deepest nesting level of a message (0 is top level)
MaxMembers == 2     \* member fields of a oneof group
MaxEnumValues == 2  \* values of an enum

DefaultVersion == <<"h","t","t","p",":","/","/","j","s","o","n","-","s","c","h","e","m","a",".","o","r","g","/","d","r","a","f","t","-","0","7","/","s","c","h","e","m","a","#">>
Versions == {DefaultVersion,
             <<"h","t","t","p",":","/","/","j","s","o","n","-","s","c","h","e","m","a",".","o","r","g","/","d","r","a","f","t","-","0","4","/","s","c","h","e","m","a","#">>,
             <<"h","t","t","p",":","/","/","j","s","o","n","-","s","c","h","e","m","a",".","o","r","g","/","d","r","a","f","t","-","0","6","/","s","c","h","e","m","a","#">>,
             <<"h","t","t","p","s",":","/","/","j","s","o","n","-","s","c","h","e","m","a",".","o","r","g","/","d","r","a","f","t","/","2","0","1","9","-","0","9","/","s","c","h","e","m","a">>,
             <<"d","r","a","f","t","-","0","7">>,
             <<>>}
Namings == {"json", "proto"}
EnumTypes == {None, Some("integer"), Some("string")}
BaseURLs == {<<>>, <<"h","t","t","p",":","/","/","x",".","i","o","/","s","c","h","e","m","a","s">>, <<"h","t","t","p",":","/","/","x",".","i","o","/">>}
Packages == {<<>>, <<"a",".","b">>}
TreeNames == {<<"O","u","t","e","r">>, <<"I","n","n","e","r">>, <<"O","u","t","e","r","_","I","n","n","e","r">>}

\* A dependency the compiler passes along without asking to generate it.
TimestampDesc == MessageDesc(<<"g","o","o","g","l","e",".","p","r","o","t","o","b","u","f">>, <<"g","o","o","g","l","e",".","p","r","o","t","o","b","u","f">>, <<"T","i","m","e","s","t","a","m","p">>, FALSE)
EmptyDesc     == MessageDesc(<<"g","o","o","g","l","e",".","p","r","o","t","o","b","u","f">>, <<"g","o","o","g","l","e",".","p","r","o","t","o","b","u","f">>, <<"E","m","p","t","y">>, FALSE)
StructDesc    == MessageDesc(<<"g","o","o","g","l","e",".","p","r","o","t","o","b","u","f">>, <<"g","o","o","g","l","e",".","p","r","o","t","o","b","u","f">>, <<"S","t","r","u","c","t">>, FALSE)
ValueDesc     == MessageDesc(<<"g","o","o","g","l","e",".","p","r","o","t","o","b","u","f">>, <<"g","o","o","g","l","e",".","p","r","o","t","o","b","u","f">>, <<"V","a","l","u","e">>, FALSE)
DateDesc      == MessageDesc(<<"g","o","o","g","l","e",".","t","y","p","e">>, <<"g","o","o","g","l","e",".","t","y","p","e">>, <<"D","a","t","e">>, FALSE)
DateTimeDesc  == MessageDesc(<<"g","o","o","g","l","e",".","t","y","p","e">>, <<"g","o","o","g","l","e",".","t","y","p","e">>, <<"D","a","t","e","T","i","m","e">>, FALSE)
WellKnown == {TimestampDesc, EmptyDesc, StructDesc, ValueDesc, DateDesc, DateTimeDesc}

NoFields(desc) == Message(desc, <<>>, <<>>, <<>>, <<>>)
DependencyFile == File(<<"g","o","o","g","l","e",".","p","r","o","t","o","b","u","f">>, FALSE, <<NoFields(TimestampDesc)>>)

\* A message forest written as its pre-order list of [d |-> depth, name |-> name];
\* the message at position me (0: none) is a map entry.
IsPreorder(pre) ==
    /\ pre[1].d = 0
    /\ \A i \in 2..Len(pre) : pre[i].d <= pre[i - 1].d + 1
    /\ \A i, j \in DOMAIN pre :
          (/\ i < j
           /\ pre[i].d = pre[j].d
           /\ pre[i].name = pre[j].name)
          => \E k \in (i + 1)..(j - 1) : pre[k].d < pre[i].d

\* The last position of the subtree that starts at lo, within lo..hi.
RECURSIVE SubtreeEnd(_, _, _)
SubtreeEnd(pre, lo, hi) ==
    LET later == {k \in (lo + 1)..hi : pre[k].d <= pre[lo].d}
    IN IF later = {} THEN hi
       ELSE (CHOOSE k \in later : \A j \in later : k <= j) - 1

\* The messages of pre[lo..hi], declared in the scope parent of package pkg.
\* Every message holds a field of its own type.
RECURSIVE ForestOf(_, _, _, _, _, _)
ForestOf(pre, lo, hi, pkg, parent, me) ==
    IF lo > hi THEN <<>>
    ELSE LET e == SubtreeEnd(pre, lo, hi)
             desc == MessageDesc(pkg, parent, pre[lo].name, lo = me)
             next == Field(<<"n","e","x","t">>, "message", FALSE, Some(desc), <<>>, <<>>, <<>>, FALSE)
         IN <<Message(desc, <<>>, <<next>>, <<>>,
                      ForestOf(pre, lo + 1, e, pkg, FullName(parent, pre[lo].name), me))>>
            \o ForestOf(pre, e + 1, hi, pkg, parent, me)

InitTrees ==
    \E n \in 1..MaxMessages :
    \E pre \in [1..n -> [d : 0..MaxDepth, name : TreeNames]] :
    \E me \in 0..n :
    \E pkg \in Packages :
    \E naming \in Namings :
        /\ IsPreorder(pre)
        /\ me > 0 => pre[me].d > 0
        /\ conf = Configuration(<<"h","t","t","p",":","/","/","x",".","i","o","/","s","c","h","e","m","a","s">>, DefaultVersion, naming, None)
        /\ files = <<DependencyFile,
                     File(pkg, TRUE, ForestOf(pre, 1, n, pkg, pkg, me))>>

\* The messages a field of the generated file can name.
Lib == <<"l","i","b">>
AuthorDesc  == MessageDesc(Lib, Lib, <<"A","u","t","h","o","r">>, FALSE)
authorDesc  == MessageDesc(Lib, Lib, <<"a","u","t","h","o","r">>, FALSE)
ADesc       == MessageDesc(Lib, Lib, <<"A">>, FALSE)
BookDesc    == MessageDesc(Lib, Lib, <<"B","o","o","k">>, FALSE)
ChapterDesc == MessageDesc(Lib, <<"l","i","b",".","B","o","o","k">>, <<"C","h","a","p","t","e","r">>, FALSE)
ResultDesc  == MessageDesc(Lib, <<"l","i","b",".","B","o","o","k">>, <<"R","e","s","u","l","t">>, FALSE)
EntryDesc   == MessageDesc(Lib, <<"l","i","b",".","B","o","o","k">>, <<"T","a","g","s","E","n","t","r","y">>, TRUE)
UserMessages == {AuthorDesc, authorDesc, ADesc, ChapterDesc}

ScalarKinds == IntegerKinds \cup {"string", "bool", "float", "double", "bytes"}
EnumNames == <<<<"U","N","K","N","O","W","N">>, <<"A","C","T","I","V","E">>, <<"D","O","N","E">>, <<"L","O","S","T">>>>
MemberNames == <<<<"e","m","a","i","l">>, <<"p","h","o","n","e","_","n","u","m","b","e","r">>, <<"f","a","x">>, <<"p","a","g","e","r">>>>

\* What a field holds: its kind, its message and its enum values.
Base(kind, message, enumValues) ==
    [kind |-> kind, message |-> message, enumValues |-> enumValues]
ScalarBases == {Base(k, None, <<>>) : k \in ScalarKinds}
EnumBases == {Base("enum", None, SubSeq(EnumNames, 1, n)) : n \in 1..MaxEnumValues}
MessageBases == {Base("message", Some(m), <<>>) : m \in WellKnown \cup UserMessages}
GroupBase == Base("group", Some(ResultDesc), <<>>)
Bases == ScalarBases \cup EnumBases \cup MessageBases \cup {GroupBase}

\* The field named name that holds base, as card ("single", "list", "map") says.
FieldOf(name, base, card, behavior, comments, oneof) ==
    IF card = "map"
    THEN MapField(name, EntryDesc,
                  Field(<<"v","a","l","u","e">>, base.kind, FALSE, base.message, base.enumValues,
                        <<>>, <<>>, FALSE),
                  behavior, comments)
    ELSE Field(name, base.kind, card = "list", base.message, base.enumValues,
               behavior, comments, oneof)

Title == Field(<<"t","i","t","l","e">>, "string", FALSE, None, <<>>, <<>>, <<" ","T","h","e"," ","t","i","t","l","e",".">>, FALSE)

\* The file lib: the messages fields name, then Book with the given fields
\* and oneofs.
LibFile(fields, oneofs) ==
    File(Lib, TRUE,
         <<NoFields(AuthorDesc), NoFields(authorDesc), NoFields(ADesc),
           Message(BookDesc, <<" ","A"," ","b","o","o","k",".">>, fields, oneofs,
                   <<NoFields(ChapterDesc), NoFields(ResultDesc),
                     NoFields(EntryDesc)>>)>>)

\* Book { string title; <one field of any type and cardinality> }
InitTypes ==
    \E base \in Bases :
    \E card \in {"single", "list", "map"} :
    \E naming \in Namings :
    \E enumType \in EnumTypes :
        /\ card = "map" => base.kind # "group"
        /\ conf = Configuration(<<"h","t","t","p",":","/","/","x",".","i","o","/">>, DefaultVersion, naming, enumType)
        /\ files = <<DependencyFile,
                     LibFile(<<Title, FieldOf(IF base.kind = "group" THEN <<"r","e","s","u","l","t">>
                                              ELSE <<"p","h","o","n","e","_","n","u","m","b","e","r">>,
                                              base, card, <<>>, <<>>, FALSE)>>, <<>>)>>

Behaviors == {<<>>, <<"OUTPUT_ONLY">>, <<"INPUT_ONLY">>, <<"REQUIRED">>,
              <<"INPUT_ONLY", "OUTPUT_ONLY">>}
Comments == {<<>>, <<" ","A","n"," ","i","d",".","\n">>, <<" ","(","-","-"," ","l","i","n","t",":"," ","x"," ","-","-",")","\n">>, <<" ","I","d"," ","(","-","-"," ","x"," ","-","-",")","\n"," ","o","f"," ","i","t",".","\n">>}
AnnotatedBases == {Base("string", None, <<>>), Base("message", Some(AuthorDesc), <<>>)}

\* Book { <one annotated, commented field, plain or the member of a oneof> }
InitAnnotations ==
    \E base \in AnnotatedBases :
    \E place \in {"single", "list", "map", "oneof"} :
    \E version \in Versions :
    \E behavior \in Behaviors :
    \E comments \in Comments :
    \E f \in {FieldOf(<<"o","w","n","e","r","_","i","d">>, base, IF place = "oneof" THEN "single" ELSE place,
                       behavior, comments, place = "oneof")} :
        /\ conf = Configuration(<<"h","t","t","p",":","/","/","x",".","i","o","/">>, version, "json", None)
        /\ files = <<DependencyFile,
                     LibFile(<<f>>, IF place = "oneof"
                                    THEN <<Oneof(<<"o","w","n","e","r">>, <<f>>)>> ELSE <<>>)>>

MemberBases == {Base("string", None, <<>>), Base("message", Some(AuthorDesc), <<>>),
                Base("message", Some(EmptyDesc), <<>>),
                Base("message", Some(TimestampDesc), <<>>),
                Base("enum", None, SubSeq(EnumNames, 1, 1)), GroupBase}
Shipping == Field(<<"a","d","d","r","e","s","s">>, "string", FALSE, None, <<>>, <<>>, <<>>, TRUE)

\* Book { string title; oneof contact { <members> } [oneof shipping { string address }] }
InitOneofs ==
    \E n \in 1..MaxMembers :
    \E bases \in [1..n -> MemberBases] :
    \E second \in BOOLEAN :
    \E naming \in Namings :
    \E baseURL \in BaseURLs :
    \E members \in {[i \in 1..n |->
                        FieldOf(MemberNames[i], bases[i], "single", <<>>, <<>>, TRUE)]} :
        /\ conf = Configuration(baseURL, DefaultVersion, naming, None)
        /\ files = <<DependencyFile,
                     LibFile(<<Title>> \o members
                                 \o (IF second THEN <<Shipping>> ELSE <<>>),
                             <<Oneof(<<"c","o","n","t","a","c","t">>, members)>>
                                 \o (IF second THEN <<Oneof(<<"s","h","i","p","p","i","n","g">>, <<Shipping>>)>>
                                     ELSE <<>>))>>

Init ==
    /\ InitTypes \/ InitAnnotations \/ InitOneofs \/ InitTrees
    /\ fileIdx = 1
    /\ generated = <<>>
    /\ pc = "new"

Spec == Init /\ [][Next]_vars

(***************************************************************************)
(* What the claims speak of                                                *)
(***************************************************************************)
\* The messages that get a document, in depth-first post-order: nested
\* messages before their container, siblings in declaration order, map-entry
\* messages left out.
RECURSIVE PostOrder(_)
PostOrder(messages) ==
    IF messages = <<>> THEN <<>>
    ELSE PostOrder(Head(messages).Messages)
         \o (IF Head(messages).Desc.IsMapEntry THEN <<>> ELSE <<Head(messages)>>)
         \o PostOrder(Tail(messages))

\* Every message of a forest, map entries included.
RECURSIVE AllMessages(_)
AllMessages(messages) ==
    IF messages = <<>> THEN <<>>
    ELSE <<Head(messages)>> \o AllMessages(Head(messages).Messages)
         \o AllMessages(Tail(messages))

\* The document names of a forest by position: the local names of the
\* enclosing messages and of the message, joined by "_"; in post-order.
RECURSIVE ScopeJoinedNames(_, _)
ScopeJoinedNames(messages, prefix) ==
    IF messages = <<>> THEN <<>>
    ELSE LET name == prefix \o Head(messages).Desc.Name
         IN ScopeJoinedNames(Head(messages).Messages, name \o <<"_">>)
            \o (IF Head(messages).Desc.IsMapEntry THEN <<>> ELSE <<name>>)
            \o ScopeJoinedNames(Tail(messages), prefix)

RECURSIVE Flatten(_)
Flatten(seqs) == IF seqs = <<>> THEN <<>> ELSE Head(seqs) \o Flatten(Tail(seqs))

\* The files Run has gone through and generates for.
Processed == SelectSeq(SubSeq(files, 1, fileIdx - 1), LAMBDA file : file.Generate)

DocMessages == Flatten([k \in DOMAIN Processed |-> PostOrder(Processed[k].Messages)])
InputMessages == Flatten([k \in DOMAIN Processed |-> AllMessages(Processed[k].Messages)])
DocNames ==
    Flatten([k \in DOMAIN Processed |-> ScopeJoinedNames(Processed[k].Messages, <<>>)])

\* generated[i] is the document of DocMessages[i].
Docs == IF Len(generated) = Len(DocMessages) THEN DOMAIN generated ELSE {}

Range(seq) == {seq[i] : i \in DOMAIN seq}
OptSeq(opt) == IF opt = None THEN <<>> ELSE opt[1]

\* The message a field holds (for a map field: that its values hold), as
\* <<descriptor>>; <<>> when it holds none.
BaseField(f) == IF f.IsMap THEN f.MapValue[1] ELSE f
TargetOf(f) == IF BaseField(f).Kind = "message" THEN BaseField(f).Message ELSE None
HoldsUserMessage(f) == TargetOf(f) # None /\ TargetOf(f)[1] \notin WellKnown

\* The kinds the type mapper has a shape for.
MappedKinds == ScalarKinds \cup {"enum", "message"}
\* The field maps to no shape: the empty-marker type or an unrecognized kind.
HasNoShape(f) == \/ f.Kind = "message" /\ ~f.IsMap /\ f.Message[1] = EmptyDesc
                 \/ f.Kind \notin MappedKinds

\* The definition a oneof member is registered as: the one whose "kind"
\* property enumerates the name of the member.
IsMemberDefinition(d, f) ==
    /\ Len(OptSeq(d.Value.Properties)) >= 1
    /\ d.Value.Properties[1][1].Name = <<"k","i","n","d">>
    /\ d.Value.Properties[1][1].Value.Enumeration = Some(<<f.Name>>)
MemberDefinitions(content, f) ==
    {d \in Range(OptSeq(content.Definitions)) : IsMemberDefinition(d, f)}

\* The nodes emitted for field f in a document: its property, or the "value"
\* property of its member definition.
FieldNodes(content, f) ==
    IF f.Oneof
    THEN {p.Value : p \in UNION {{q \in Range(OptSeq(d.Value.Properties)) :
                                     q.Name = <<"v","a","l","u","e">>} :
                                 d \in MemberDefinitions(content, f)}}
    ELSE {p.Value : p \in {q \in Range(OptSeq(content.Properties)) :
                              q.Name = formatFieldName(conf, f)}}

\* The node that holds the shape of the field's type: the items of an array,
\* the additionalProperties of a map, else the node itself.
ShapeNode(node) ==
    IF node.Items # None THEN node.Items[1].Schema
    ELSE IF node.AdditionalProperties # None THEN node.AdditionalProperties[1].Schema
    ELSE Some(node)

\* Every schema node of a document below its root.
InnerNodes(node) ==
    (IF node.Items # None THEN Range(node.Items[1].Schema) ELSE {})
    \cup (IF node.AdditionalProperties # None
          THEN Range(node.AdditionalProperties[1].Schema) ELSE {})
    \cup Range(OptSeq(node.OneOf))
PropertyNodes(value) ==
    UNION {{p.Value} \cup InnerNodes(p.Value) : p \in Range(OptSeq(value.Properties))}
AllNodes(content) ==
    PropertyNodes(content)
    \cup UNION {{d.Value} \cup PropertyNodes(d.Value) :
                d \in Range(OptSeq(content.Definitions))}

\* The draft each configured $schema URL names ("" when it is no such URL).
Drafts == {<<DefaultVersion, <<"0","7">>>>,
           <<<<"h","t","t","p",":","/","/","j","s","o","n","-","s","c","h","e","m","a",".","o","r","g","/","d","r","a","f","t","-","0","4","/","s","c","h","e","m","a","#">>, <<"0","4">>>>,
           <<<<"h","t","t","p",":","/","/","j","s","o","n","-","s","c","h","e","m","a",".","o","r","g","/","d","r","a","f","t","-","0","6","/","s","c","h","e","m","a","#">>, <<"0","6">>>>,
           <<<<"h","t","t","p","s",":","/","/","j","s","o","n","-","s","c","h","e","m","a",".","o","r","g","/","d","r","a","f","t","/","2","0","1","9","-","0","9","/","s","c","h","e","m","a">>, <<"2","0","1","9","-","0","9">>>>,
           <<<<"d","r","a","f","t","-","0","7">>, <<>>>>,
           <<<<>>, <<>>>>}
DraftOf(version) == (CHOOSE d \in Drafts : d[1] = version)[2]

\* The description each leading comment gives: line breaks and linter
\* directives removed, then trimmed.
Descriptions == {<<<<>>, <<>>>>,
                 <<<<" ","A","n"," ","i","d",".","\n">>, <<"A","n"," ","i","d",".">>>>,
                 <<<<" ","(","-","-"," ","l","i","n","t",":"," ","x"," ","-","-",")","\n">>, <<>>>>,
                 <<<<" ","I","d"," ","(","-","-"," ","x"," ","-","-",")","\n"," ","o","f"," ","i","t",".","\n">>, <<"I","d"," "," ","o","f"," ","i","t",".">>>>,
                 <<<<" ","T","h","e"," ","t","i","t","l","e",".">>, <<"T","h","e"," ","t","i","t","l","e",".">>>>,
                 <<<<" ","A"," ","b","o","o","k",".">>, <<"A"," ","b","o","o","k",".">>>>}
DescriptionOf(comments) == (CHOOSE d \in Descriptions : d[1] = comments)[2]

(***************************************************************************)
(* Claims                                                                  *)
(***************************************************************************)
\* C1: every reference emitted for a field (plain or oneof member, singular,
\* repeated or map value) whose type is a non-well-known message M is the
\* file name of the document generated for M.
C1_RefIsDocumentName ==
    \A i \in Docs : \A f \in Range(DocMessages[i].Fields) :
        HoldsUserMessage(f) =>
            /\ FieldNodes(generated[i].Content, f) # {}
            /\ \A node \in FieldNodes(generated[i].Content, f) : \A j \in Docs :
                  DocMessages[j].Desc = TargetOf(f)[1]
                  => /\ ShapeNode(node) # None
                     /\ ShapeNode(node)[1].Ref = Some(generated[j].Name)

\* C2: no two documents generated for distinct messages share a file name.
C2_DistinctDocumentNames ==
    \A i, j \in Docs :
        DocMessages[i].Desc # DocMessages[j].Desc
        => generated[i].Name # generated[j].Name

\* C5: the documents are those of the messages in depth-first post-order,
\* map-entry messages left out: one document per other message, nested
\* documents before that of the enclosing message, siblings in declaration
\* order.
C5_PostOrderDocuments ==
    /\ Len(generated) = Len(DocMessages)
    /\ \A i \in DOMAIN generated :
          /\ generated[i].Content = schemaForMessage(conf, DocMessages[i]).Value
          /\ \A m \in Range(SubSeq(DocMessages, 1, i - 1)) :
                \A n \in Range(m.Messages) : n # DocMessages[i]

\* C5 witness: a map-entry message with nested messages has been generated for.
C5_Witness ==
    /\ pc = "done"
    /\ Len(generated) >= 2
    /\ \E m \in Range(InputMessages) : m.Desc.IsMapEntry /\ m.Messages # <<>>

\* C9: the name of every document is the local names of the enclosing
\* messages and of the message, joined by "_", whatever the package.
C9_ScopeJoinedName ==
    \A i \in Docs : generated[i].Name = DocNames[i] \o <<".","j","s","o","n">>

\* The members of a oneof that map to a shape, in declaration order.
KeptMembers(oneof) == SelectSeq(oneof.Fields, LAMBDA f : ~HasNoShape(f))

\* The properties a document holds under the name of a oneof.
OneofNodes(content, oneof) ==
    {p.Value : p \in {q \in Range(OptSeq(content.Properties)) :
                         q.Name = formatOneofFieldName(conf, oneof)}}

\* The union lists the null type, then for each of members, in order, a local
\* reference to its definition, which holds "kind" (a string with a
\* one-element enumeration) and "value".
UnionLists(content, node, members) ==
    /\ node.OneOf # None
    /\ Len(node.OneOf[1]) = Len(members) + 1
    /\ node.OneOf[1][1].Type = TypeOf(typeNull)
    /\ node.OneOf[1][1].Ref = None
    /\ \A k \in DOMAIN members :
          /\ Cardinality(MemberDefinitions(content, members[k])) = 1
          /\ \A d \in MemberDefinitions(content, members[k]) :
                /\ node.OneOf[1][k + 1].Ref = Some(<<"#","/","d","e","f","i","n","i","t","i","o","n","s","/">> \o d.Name)
                /\ Len(d.Value.Properties[1]) = 2
                /\ d.Value.Properties[1][1].Name = <<"k","i","n","d">>
                /\ d.Value.Properties[1][1].Value.Type = TypeOf(typeString)
                /\ Len(d.Value.Properties[1][1].Value.Enumeration[1]) = 1
                /\ d.Value.Properties[1][2].Name = <<"v","a","l","u","e">>

\* C3 as claimed: a oneof with N members gives one property whose union holds
\* N + 1 alternatives, the null type and a reference per member, in order.
C3_EveryMemberListed ==
    \A i \in Docs : \A o \in Range(DocMessages[i].Oneofs) :
        /\ Cardinality(OneofNodes(generated[i].Content, o)) = 1
        /\ \A node \in OneofNodes(generated[i].Content, o) :
              UnionLists(generated[i].Content, node, o.Fields)

\* C3 as amended: a oneof gives one property whose union holds the null type
\* and then a local reference per member that maps to a shape, in declaration
\* order (a member of the empty-marker type or of an unrecognized kind is left
\* out); every definition registered holds exactly "kind" and "value".
C3_MappedMembersListed ==
    \A i \in Docs :
        /\ \A o \in Range(DocMessages[i].Oneofs) :
              /\ Cardinality(OneofNodes(generated[i].Content, o)) = 1
              /\ \A node \in OneofNodes(generated[i].Content, o) :
                    UnionLists(generated[i].Content, node, KeptMembers(o))
        /\ \A d \in Range(OptSeq(generated[i].Content.Definitions)) :
              /\ Len(OptSeq(d.Value.Properties)) = 2
              /\ \E f \in Range(DocMessages[i].Fields) :
                    f.Oneof /\ ~HasNoShape(f) /\ IsMemberDefinition(d, f)

\* C3 witness: a oneof with a member left out and a member listed.
C3_Witness ==
    /\ pc = "done"
    /\ \E i \in Docs : \E o \in Range(DocMessages[i].Oneofs) :
          /\ Len(KeptMembers(o)) >= 1
          /\ Len(KeptMembers(o)) < Len(o.Fields)
          /\ generated[i].Content.Definitions # None

\* The nodes of the fields of document i, each with its field.
FieldNodePairs(i) ==
    UNION {{<<f, node>> : node \in FieldNodes(generated[i].Content, f)} :
           f \in Range(DocMessages[i].Fields)}

\* C4: a field node (property or oneof "value") has readOnly exactly when the
\* draft of the configured $schema is lexically >= "07" and the field is
\* OUTPUT_ONLY, and writeOnly exactly when it is >= "07" and the field is
\* INPUT_ONLY.
C4_ReadOnlyWriteOnly ==
    \A i \in Docs : \A fn \in FieldNodePairs(i) :
        LET atLeast07 == StrGE(DraftOf(conf.Version), <<"0","7">>)
        IN /\ fn[2].ReadOnly # None
                <=> (atLeast07 /\ "OUTPUT_ONLY" \in Range(fn[1].Behavior))
           /\ fn[2].WriteOnly # None
                <=> (atLeast07 /\ "INPUT_ONLY" \in Range(fn[1].Behavior))
           /\ fn[2].ReadOnly \in {None, Some(TRUE)}
           /\ fn[2].WriteOnly \in {None, Some(TRUE)}

\* C4 witness: a oneof "value" node made readOnly under draft 2019-09.
C4_Witness ==
    /\ pc = "done"
    /\ DraftOf(conf.Version) = <<"2","0","1","9","-","0","9">>
    /\ \E i \in Docs : \E fn \in FieldNodePairs(i) :
          fn[1].Oneof /\ fn[2].ReadOnly = Some(TRUE) /\ fn[2].WriteOnly = None

\* C6 as claimed: a node that carries a reference carries neither a title nor
\* a description.
C6_RefWithoutTitleAndDescription ==
    \A i \in Docs : \A node \in AllNodes(generated[i].Content) :
        node.Ref # None => node.Title = None /\ node.Description = None

\* C6 as amended: a node that carries a reference never carries a title; the
\* node of a field (a property or a oneof "value") carries as description the
\* field's leading comment, line breaks and linter directives removed and
\* trimmed, when that is not empty, and no description when it is empty; every
\* other node that carries a reference carries no description.
C6_RefWithoutTitle ==
    \A i \in Docs :
        LET fieldNodes == FieldNodePairs(i)
        IN /\ \A node \in AllNodes(generated[i].Content) :
                 node.Ref # None
                 => /\ node.Title = None
                    /\ (\A fn \in fieldNodes : fn[2] # node) => node.Description = None
           /\ \A fn \in fieldNodes :
                 fn[2].Ref # None
                 => fn[2].Description =
                        (IF DescriptionOf(fn[1].Comments) = <<>> THEN None
                         ELSE Some(DescriptionOf(fn[1].Comments)))

\* C6 witness: a oneof "value" node with a reference and a description.
C6_Witness ==
    /\ pc = "done"
    /\ \E i \in Docs : \E fn \in FieldNodePairs(i) :
          /\ fn[1].Oneof
          /\ fn[2].Ref # None
          /\ fn[2].Description # None
          /\ fn[2].Title = None

\* C7: a field of the empty-marker type or of an unrecognized kind, singular or
\* repeated, gives no property, no member definition and no union
\* alternative, and the document of its message is still emitted.
C7_UnmappedFieldOmitted ==
    /\ Len(generated) = Len(DocMessages)
    /\ \A i \in Docs :
          /\ \A f \in Range(DocMessages[i].Fields) :
                HasNoShape(f)
                => /\ FieldNodes(generated[i].Content, f) = {}
                   /\ MemberDefinitions(generated[i].Content, f) = {}
          /\ \A o \in Range(DocMessages[i].Oneofs) :
                \A node \in OneofNodes(generated[i].Content, o) :
                    Len(node.OneOf[1]) <= Len(KeptMembers(o)) + 1

\* The shape an enum takes: integer with default 0, or string with the value
\* names as enumeration and the first as default.
IsEnumShape(node, f) ==
    IF conf.EnumType = Some("string")
    THEN /\ node.Type = TypeOf(typeString)
         /\ node.Enumeration = Some(BaseField(f).EnumValues)
         /\ node.Default # None
         /\ node.Default[1].StringValue = Some(BaseField(f).EnumValues[1])
    ELSE /\ node.Type = TypeOf(typeInteger)
         /\ node.Enumeration = None
         /\ node.Default # None
         /\ node.Default[1].Int64Value = Some(0)

\* C8 as claimed: the node of every enum-typed field has the enum shape.
C8_EnumFieldNode ==
    \A i \in Docs : \A fn \in FieldNodePairs(i) :
        fn[1].Kind = "enum" => IsEnumShape(fn[2], fn[1])

\* C8 as amended: for every enum-typed field the node that holds the shape of
\* its type (the field's node when it is singular, the items of its array when
\* it is repeated, the additionalProperties when enums are the values of a
\* map) has the enum shape; the node of a repeated field is an array whose
\* default is the empty array.
C8_EnumShapeNode ==
    \A i \in Docs : \A fn \in FieldNodePairs(i) :
        BaseField(fn[1]).Kind = "enum"
        => /\ ShapeNode(fn[2]) # None
           /\ IsEnumShape(ShapeNode(fn[2])[1], fn[1])
           /\ ~fn[1].IsList /\ ~fn[1].IsMap => ShapeNode(fn[2])[1] = fn[2]
           /\ fn[1].IsList => /\ fn[2].Type = TypeOf(typeArray)
                              /\ fn[2].Default[1].ArrayValue = Some(<<>>)
                              /\ fn[2].Items # None

\* C8 witness: a repeated enum of two values rendered as strings.
C8_Witness ==
    /\ pc = "done"
    /\ conf.EnumType = Some("string")
    /\ \E i \in Docs : \E fn \in FieldNodePairs(i) :
          /\ fn[1].Kind = "enum"
          /\ fn[1].IsList
          /\ Len(fn[1].EnumValues) >= 2
          /\ fn[2].Items # None

\* C10: the definition of a oneof member that maps to a shape is named
\* <document name>_<declared name of the member>, the name its "kind"
\* enumerates, and its union alternative is "#/definitions/" and that name.
C10_DefinitionNamedByField ==
    \A i \in Docs : \A o \in Range(DocMessages[i].Oneofs) :
        \A k \in DOMAIN KeptMembers(o) :
            LET f == KeptMembers(o)[k]
                name == generated[i].Content.Title[1] \o <<"_">> \o f.Name
            IN /\ \E d \in MemberDefinitions(generated[i].Content, f) : d.Name = name
               /\ \A node \in OneofNodes(generated[i].Content, o) :
                     /\ Len(node.OneOf[1]) > k
                     /\ node.OneOf[1][k + 1].Ref = Some(<<"#","/","d","e","f","i","n","i","t","i","o","n","s","/">> \o name)

====
